---- MODULE Spec2Model ----
(***************************************************************************)
(* Model of rigolreader.py: main() and read_rof(), one action per          *)
(* statement.  A file is a sequence of bytes (0..255); the file object is  *)
(* the pair (fid, pos).  An exception ends the run at the statement that   *)
(* raised it (nothing in the script catches anything).                     *)
(*                                                                         *)
(* A numpy float32 value is kept as a record [n, d] standing for n/d: the  *)
(* integer-to-float32 conversion is modelled exactly (24 significant bits, *)
(* round half to even); the product with 0.0001 multiplies the denominator *)
(* by 10000, its own last-bit rounding is left out.                        *)
(***************************************************************************)
EXTENDS Integers, Sequences, FiniteSets, TLC

\* ---------------------------------------------------------------- bounds
\* Largest point count a generated file declares.
MaxPoints == 3
\* Largest number of command-line arguments after the script name.
MaxArgs == 2
\* Bytes generated beyond the end of the declared sample block.
MaxExtra == 1

\* ------------------------------------------------------------- constants
DATA_BYTES == 4
\* 0.0001, kept as its denominator
VOLTS_AMPERES_COEFF == 10000
CSV_SEPARATOR == ";"
\* DATA_FORMAT = "<i4": byte order and signedness of a sample
DATA_FORMAT == [order |-> "little", signed |-> TRUE, size |-> DATA_BYTES]

\* ch_num / model_dict: Python dicts as functions; a missing key is KeyError
ch_num == [m \in {"DP821A"} |-> 2]
model_dict == [b \in {<<10>>} |-> "DP821A"]

\* --------------------------------------------------------- byte helpers
Min(a, b) == IF a < b THEN a ELSE b
Abs(n) == IF n < 0 THEN -n ELSE n

\* The 4 bytes of a 32-bit two's complement value, least significant first
\* (what the instrument writes).
Int32LE(v) ==
  LET u == IF v < 0 THEN -v - 1 ELSE v
      b(k) == (u \div (256 ^ k)) % 256
      c(k) == IF v < 0 THEN 255 - b(k) ELSE b(k)
  IN  <<c(0), c(1), c(2), c(3)>>

Int16LE(v) ==
  LET u == IF v < 0 THEN -v - 1 ELSE v
      b(k) == (u \div (256 ^ k)) % 256
      c(k) == IF v < 0 THEN 255 - b(k) ELSE b(k)
  IN  <<c(0), c(1)>>

Reverse(s) == [i \in 1..Len(s) |-> s[Len(s) + 1 - i]]

\* A signed integer from its bytes, least significant first.
RECURSIVE Unsigned(_)
Unsigned(bs) ==
  IF Len(bs) = 0 THEN 0 ELSE bs[1] + 256 * Unsigned(Tail(bs))

SignedLE(bs) ==
  LET n == Len(bs)
      top == bs[n]
      low == Unsigned(SubSeq(bs, 1, n - 1))
  IN  (IF top >= 128 THEN top - 256 ELSE top) * (256 ^ (n - 1)) + low

\* struct.calcsize of the two formats the script uses
calcsize(fmt) == IF fmt = "1h" THEN 2 ELSE 4

\* struct.unpack(fmt, bs)[0] for a buffer of the right size: native byte order
unpack(fmt, bs, order) ==
  IF order = "little" THEN SignedLE(bs) ELSE SignedLE(Reverse(bs))

\* fid.read(n) at cursor p: the bytes returned.  A short file gives a short
\* (possibly empty) result; a negative n reads to the end of the file.
ReadBytes(f, p, n) ==
  IF n < 0 THEN SubSeq(f, p + 1, Len(f))
  ELSE SubSeq(f, p + 1, Min(p + n, Len(f)))

\* the cursor after fid.read(n)
ReadPos(f, p, n) ==
  IF n < 0 THEN Len(f) ELSE Min(p + n, Len(f))

\* bytes.decode("latin-1"): byte b is the character U+00b, never fails
Decode(bs) == [i \in 1..Len(bs) |-> [codepoint |-> bs[i]]]

\* --------------------------------------------------------- numpy helpers
\* Conversion of an integer to float32: exact up to 2^24, beyond that
\* rounded to 24 significant bits, ties to even.  The result is the integer
\* the float32 holds.
RECURSIVE UlpOf(_, _)
UlpOf(a, u) == IF a \div u < 2 ^ 24 THEN u ELSE UlpOf(a, 2 * u)

ToFloat32(n) ==
  LET a == Abs(n)
      ulp == UlpOf(a, 1)
      q == a \div ulp
      r == a % ulp
      up == (2 * r > ulp) \/ (2 * r = ulp /\ q % 2 = 1)
      m == (IF up THEN q + 1 ELSE q) * ulp
  IN  IF n < 0 THEN -m ELSE m

Float(n) == [n |-> ToFloat32(n), d |-> 1]

\* float32 value times VOLTS_AMPERES_COEFF
Scale(x) == [n |-> x.n, d |-> x.d * VOLTS_AMPERES_COEFF]

\* data = list()
EmptyList == [shape |-> <<0>>, a |-> <<>>]

\* head = dict()
EmptyDict == [k \in {} |-> 0]

\* Variant: the constructor without its check for a negative dimension.
NdArrayError_noSign(rows, cols, raw) ==
  IF Len(raw) < rows * cols * DATA_FORMAT.size THEN "TypeError" ELSE "none"

\* np.ndarray(shape=(rows, cols), dtype=DATA_FORMAT, buffer=raw): what the
\* constructor raises, "none" when it builds the array.
NdArrayError(rows, cols, raw) ==
  IF rows >= 0 /\ Len(raw) < rows * cols * DATA_FORMAT.size THEN "TypeError"
  ELSE IF rows < 0 THEN "ValueError"
  ELSE "none"

\* Variant: the buffer read in Fortran (column-major) order.
Element_columnMajor(raw, cols, r, c) ==
  LET rows == Len(raw) \div (cols * DATA_FORMAT.size)
      off == (c * rows + r) * DATA_FORMAT.size
  IN  SignedLE(SubSeq(raw, off + 1, off + DATA_FORMAT.size))

\* element (r, c), 0-based, of the C-ordered view over the buffer
Element(raw, cols, r, c) ==
  LET off == (r * cols + c) * DATA_FORMAT.size
  IN  SignedLE(SubSeq(raw, off + 1, off + DATA_FORMAT.size))

NdArray(rows, cols, raw) ==
  [shape |-> <<rows, cols>>,
   a |-> [r \in 1..rows |-> [c \in 1..cols |-> Element(raw, cols, r - 1, c - 1)]]]

\* data.astype(np.float32)
AsType(arr) ==
  [shape |-> arr.shape,
   a |-> [r \in 1..arr.shape[1] |-> [c \in 1..arr.shape[2] |-> Float(arr.a[r][c])]]]

\* data * VOLTS_AMPERES_COEFF
Multiply(arr) ==
  [shape |-> arr.shape,
   a |-> [r \in 1..arr.shape[1] |-> [c \in 1..arr.shape[2] |-> Scale(arr.a[r][c])]]]

\* Variant: the time axis counted from 1 instead of 0.
TimeColumn_fromOne(points, period) ==
  [i \in 1..points |-> Float(i * period)]

\* np.array([val * period for val in range(points)], dtype=data.dtype)
TimeColumn(points, period) ==
  [i \in 1..points |-> Float((i - 1) * period)]

\* Variant: the time column overwrites column 0 instead of being inserted.
Insert_overwrite(arr, x) ==
  [shape |-> arr.shape,
   a |-> [r \in 1..arr.shape[1] |-> <<x[r]>> \o Tail(arr.a[r])]]

\* np.insert(data, 0, x, axis=1)
Insert(arr, x) ==
  [shape |-> <<arr.shape[1], arr.shape[2] + 1>>,
   a |-> [r \in 1..arr.shape[1] |-> <<x[r]>> \o arr.a[r]]]

\* CSV_SEPARATOR.join(str(val) for val in line)
RECURSIVE Join(_)
Join(line) ==
  IF Len(line) = 0 THEN <<>>
  ELSE IF Len(line) = 1 THEN <<line[1]>>
  ELSE <<line[1], CSV_SEPARATOR>> \o Join(Tail(line))

\* ------------------------------------------------------------ input files
\* What the instrument wrote: a model byte, a point count, and one of three
\* recordings (sample period and sample values).
ModelBytes == {10, 11}
PointCounts == {-3, -1} \cup (0..MaxPoints)
Recordings == {"spec", "negative", "large"}

PeriodOf(rec) ==
  CASE rec = "spec" -> 5
    [] rec = "negative" -> -3
    [] OTHER -> 2 ^ 24 + 1

\* k-th sample value (0-based) of a recording, in file order
SampleOf(rec, k) ==
  CASE rec = "spec" -> 10000 * (k + 1)
    [] rec = "negative" -> -7 * (k + 1)
    [] OTHER -> 2 ^ 24 + 1 + k

\* offset of the sample block: the sum of the widths of the header fields
HeaderLen == 3 + 1 + 1 + 1 + 2 + 4 + 2 + 2 + 4 + 4 + 4

FullLen == HeaderLen + 2 * ch_num["DP821A"] * DATA_BYTES * MaxPoints + MaxExtra

RECURSIVE SampleBytes(_, _, _)
SampleBytes(rec, k, n) ==
  IF n <= 0 THEN <<>>
  ELSE IF n >= 4 THEN Int32LE(SampleOf(rec, k)) \o SampleBytes(rec, k + 1, n - 4)
  ELSE SubSeq(Int32LE(SampleOf(rec, k)), 1, n)

HeaderBytes(w) ==
  <<82, 79, 70, 0, w.model, 0>> \o Int16LE(HeaderLen) \o Int32LE(0)
    \o <<171, 205>> \o <<18, 52>> \o Int32LE(PeriodOf(w.rec))
    \o Int32LE(w.points) \o <<0, 0, 0, 0>>

\* the file: header and samples, cut at w.len bytes
FileBytes(w) ==
  SubSeq(HeaderBytes(w) \o SampleBytes(w.rec, 0, w.len - HeaderLen), 1, w.len)

Written ==
  [model : ModelBytes, points : PointCounts, rec : Recordings, len : 0..FullLen]

NoFile == [model |-> 0, points |-> 0, rec |-> "none", len |-> 0]

\* command lines: the script name, then up to MaxArgs words
ArgWords == {"-h", "--help", "in.rof"}
RECURSIVE ArgLists(_)
ArgLists(n) ==
  IF n = 0 THEN {<<>>}
  ELSE ArgLists(n - 1)
         \cup {Append(s, w) : s \in {t \in ArgLists(n - 1) : Len(t) = n - 1}, w \in ArgWords}

\* ------------------------------------------------------------------ state
VARIABLES
  argv,        \* sys.argv
  byteorder,   \* sys.byteorder of the host ("little" or "big")
  main_pc,     \* position in main()
  rof_pc,      \* position in read_rof()
  exc,         \* the exception that ended the run, "none" if none
  stdout,      \* the lines printed so far
  idx,         \* rows of the table printed so far
  written,     \* what the instrument put in the file that was opened
  fid,         \* the bytes of the open file
  pos,         \* the read cursor of fid
  head,        \* read_rof's head dict
  raw_data,    \* read_rof's raw_data
  data,        \* read_rof's data
  x_data,      \* read_rof's x_data
  result       \* main's (data, head), <<>> before read_rof returned

vars == <<argv, byteorder, main_pc, rof_pc, exc, stdout, idx, written, fid, pos,
          head, raw_data, data, x_data, result>>

mainVars == <<main_pc, stdout, idx, result>>
rofLocals == <<head, raw_data, data, x_data>>
fileVars == <<written, fid>>
envVars == <<argv, byteorder>>

Init ==
  /\ argv \in {<<"rigolreader.py">> \o a : a \in ArgLists(MaxArgs)}
  /\ byteorder \in {"little", "big"}
  /\ main_pc = "assert_path"
  /\ rof_pc = "idle"
  /\ exc = "none"
  /\ stdout = <<>>
  /\ idx = 0
  /\ written = NoFile
  /\ fid = <<>>
  /\ pos = 0
  /\ head = EmptyDict
  /\ raw_data = <<>>
  /\ data = EmptyList
  /\ x_data = <<>>
  /\ result = <<>>

\* Variant: the exception is swallowed and what was built so far is returned.
Raise_continue(e) ==
  /\ exc' = e
  /\ main_pc' = "output"
  /\ rof_pc' = "returned"

\* an uncaught exception: read_rof (if running) and main both end
Raise(e) ==
  /\ exc' = e
  /\ main_pc' = "raised"
  /\ rof_pc' = IF rof_pc = "idle" THEN "idle" ELSE "raised"

\* ------------------------------------------------------------------- main
\* assert len(sys.argv) > 1
AssertPath ==
  /\ main_pc = "assert_path"
  /\ IF Len(argv) > 1
       THEN main_pc' = "assert_count" /\ UNCHANGED <<exc, rof_pc>>
       ELSE Raise("AssertionError")
  /\ UNCHANGED <<envVars, stdout, idx, result, fileVars, pos, rofLocals>>

\* Variant: no upper limit on the number of arguments.
AssertCount_skipped ==
  /\ main_pc = "assert_count"
  /\ main_pc' = "help"
  /\ UNCHANGED <<envVars, exc, rof_pc, stdout, idx, result, fileVars, pos, rofLocals>>

\* assert len(sys.argv) < 3
AssertCount ==
  /\ main_pc = "assert_count"
  /\ IF Len(argv) < 3
       THEN main_pc' = "help" /\ UNCHANGED <<exc, rof_pc>>
       ELSE Raise("AssertionError")
  /\ UNCHANGED <<envVars, stdout, idx, result, fileVars, pos, rofLocals>>

IsHelp == argv[2] = "-h" \/ argv[2] = "--help"

\* if sys.argv[1] == "-h" or ...: print usage; return
PrintUsage ==
  /\ main_pc = "help"
  /\ IsHelp
  /\ stdout' = Append(stdout, <<"Usage: python rigolreader.py inpytfile.rof > outpufile.csv">>)
  /\ main_pc' = "done"
  /\ UNCHANGED <<envVars, rof_pc, exc, idx, result, fileVars, pos, rofLocals>>

\* data, head = read_rof(sys.argv[1]), up to head = dict(): the file named
\* on the command line is any of the generated files, or does not exist
CallReadRof ==
  /\ main_pc = "help"
  /\ ~IsHelp
  /\ \/ /\ exc' = "FileNotFoundError"
        /\ main_pc' = "raised"
        /\ rof_pc' = "raised"
        /\ UNCHANGED <<fileVars, pos, rofLocals>>
     \/ \E w \in Written :
          /\ written' = w
          /\ fid' = FileBytes(w)
          /\ pos' = 0
          /\ data' = EmptyList
          /\ head' = EmptyDict
          /\ main_pc' = "read"
          /\ rof_pc' = "filetype"
          /\ UNCHANGED <<exc, raw_data, x_data>>
  /\ UNCHANGED <<envVars, stdout, idx, result>>

\* --------------------------------------------------------------- read_rof
\* head[key] = value
Put(key, value) == head' = head @@ (key :> value)

\* a statement of read_rof that reads n bytes and cannot raise
ReadStep(here, n, next) ==
  /\ rof_pc = here
  /\ pos' = ReadPos(fid, pos, n)
  /\ rof_pc' = next
  /\ UNCHANGED <<envVars, mainVars, exc, fileVars, raw_data, data, x_data>>

\* head[key] = struct.unpack(fmt, fid.read(calcsize(fmt)))[0]: the read
\* moves the cursor, then unpack raises struct.error on a short buffer
UnpackStep(here, key, fmt, next) ==
  LET bs == ReadBytes(fid, pos, calcsize(fmt))
  IN  /\ rof_pc = here
      /\ pos' = ReadPos(fid, pos, calcsize(fmt))
      /\ IF Len(bs) = calcsize(fmt)
           THEN /\ Put(key, unpack(fmt, bs, byteorder))
                /\ rof_pc' = next
                /\ UNCHANGED <<exc, main_pc>>
           ELSE /\ Raise("struct.error")
                /\ UNCHANGED head
      /\ UNCHANGED <<envVars, stdout, idx, result, fileVars, raw_data, data, x_data>>

\* head["filetype"] = fid.read(3).decode(ENCODING)
ReadFiletype ==
  /\ ReadStep("filetype", 3, "skip_filetype")
  /\ Put("filetype", Decode(ReadBytes(fid, pos, 3)))

\* fid.read(1)  # unused last byte of file type value
SkipFiletypeByte ==
  /\ ReadStep("skip_filetype", 1, "model")
  /\ UNCHANGED head

\* Variant: an unknown code falls back to the only known model.
ReadModel_default ==
  /\ rof_pc = "model"
  /\ pos' = ReadPos(fid, pos, 1)
  /\ Put("model", "DP821A")
  /\ rof_pc' = "skip_model"
  /\ UNCHANGED <<envVars, mainVars, exc, fileVars, raw_data, data, x_data>>

\* head["model"] = model_dict[fid.read(1)]
ReadModel ==
  LET key == ReadBytes(fid, pos, 1)
  IN  /\ rof_pc = "model"
      /\ pos' = ReadPos(fid, pos, 1)
      /\ IF key \in DOMAIN model_dict
           THEN /\ Put("model", model_dict[key])
                /\ rof_pc' = "skip_model"
                /\ UNCHANGED <<exc, main_pc>>
           ELSE /\ Raise("KeyError")
                /\ UNCHANGED head
      /\ UNCHANGED <<envVars, stdout, idx, result, fileVars, raw_data, data, x_data>>

\* fid.read(1)  # unused byte
SkipModelByte ==
  /\ ReadStep("skip_model", 1, "data_info_len")
  /\ UNCHANGED head

\* head["data_info_len"] = struct.unpack('1h', fid.read(2))[0]
ReadDataInfoLen ==
  /\ rof_pc = "data_info_len"
  /\ UnpackStep("data_info_len", "data_info_len", "1h", "data_len")

\* head["data_len"] = struct.unpack('1i', fid.read(4))[0]
ReadDataLen ==
  /\ rof_pc = "data_len"
  /\ UnpackStep("data_len", "data_len", "1i", "head_crc")

\* head["head_crc"] = fid.read(2)
ReadHeadCrc ==
  /\ ReadStep("head_crc", 2, "data_crc")
  /\ Put("head_crc", ReadBytes(fid, pos, 2))

\* head["data_crc"] = fid.read(2)
ReadDataCrc ==
  /\ ReadStep("data_crc", 2, "period")
  /\ Put("data_crc", ReadBytes(fid, pos, 2))

\* head["period"] = struct.unpack('1i', fid.read(4))[0]
ReadPeriod ==
  /\ rof_pc = "period"
  /\ UnpackStep("period", "period", "1i", "points")

\* head["points"] = struct.unpack('1i', fid.read(4))[0]
ReadPoints ==
  /\ rof_pc = "points"
  /\ UnpackStep("points", "points", "1i", "oldest_data_subscript")

\* Variant: the oldest-data subscript is not read from the file.
ReadOldestDataSubscript_unread ==
  /\ rof_pc = "oldest_data_subscript"
  /\ rof_pc' = "raw_data"
  /\ Put("oldest_data_subscript", <<>>)
  /\ UNCHANGED <<envVars, mainVars, exc, fileVars, pos, raw_data, data, x_data>>

\* head["oldest_data_subscript"] = fid.read(4)
ReadOldestDataSubscript ==
  /\ ReadStep("oldest_data_subscript", 4, "raw_data")
  /\ Put("oldest_data_subscript", ReadBytes(fid, pos, 4))

\* number of value columns of the table: ch_num[head["model"]] * 2
Columns == ch_num[head["model"]] * 2

\* data_values = ...; data_bytes = ...; raw_data = fid.read(data_bytes)
ReadRawData ==
  LET data_values == head["points"] * Columns
      data_bytes == data_values * DATA_BYTES
  IN  /\ rof_pc = "raw_data"
      /\ raw_data' = ReadBytes(fid, pos, data_bytes)
      /\ pos' = ReadPos(fid, pos, data_bytes)
      /\ rof_pc' = "ndarray"
      /\ UNCHANGED <<envVars, mainVars, exc, fileVars, head, data, x_data>>

\* Variant: the array takes as many whole rows as the buffer holds.
MakeArray_truncating ==
  /\ rof_pc = "ndarray"
  /\ head["points"] >= 0
  /\ data' = NdArray(Len(raw_data) \div (Columns * DATA_FORMAT.size), Columns, raw_data)
  /\ rof_pc' = "astype"
  /\ UNCHANGED <<envVars, mainVars, exc, fileVars, pos, head, raw_data, x_data>>

\* data = np.ndarray(shape=(points, columns), dtype=DATA_FORMAT, buffer=raw_data)
MakeArray ==
  LET e == NdArrayError(head["points"], Columns, raw_data)
  IN  /\ rof_pc = "ndarray"
      /\ IF e = "none"
           THEN /\ data' = NdArray(head["points"], Columns, raw_data)
                /\ rof_pc' = "astype"
                /\ UNCHANGED <<exc, main_pc>>
           ELSE /\ Raise(e)
                /\ UNCHANGED data
      /\ UNCHANGED <<envVars, stdout, idx, result, fileVars, pos, head, raw_data, x_data>>

\* data = data.astype(np.float32)
ConvertToFloat ==
  /\ rof_pc = "astype"
  /\ data' = AsType(data)
  /\ rof_pc' = "coeff"
  /\ UNCHANGED <<envVars, mainVars, exc, fileVars, pos, head, raw_data, x_data>>

\* data = data * VOLTS_AMPERES_COEFF
ConvertToVolts ==
  /\ rof_pc = "coeff"
  /\ data' = Multiply(data)
  /\ rof_pc' = "x_data"
  /\ UNCHANGED <<envVars, mainVars, exc, fileVars, pos, head, raw_data, x_data>>

\* x_data = np.array([...], dtype=data.dtype, order="F")
GetTimeColumn ==
  /\ rof_pc = "x_data"
  /\ x_data' = TimeColumn(head["points"], head["period"])
  /\ rof_pc' = "insert"
  /\ UNCHANGED <<envVars, mainVars, exc, fileVars, pos, head, raw_data, data>>

\* data = np.insert(data, 0, x_data, axis=1)
AddTimeColumn ==
  /\ rof_pc = "insert"
  /\ data' = Insert(data, x_data)
  /\ rof_pc' = "return"
  /\ UNCHANGED <<envVars, mainVars, exc, fileVars, pos, head, raw_data, x_data>>

\* return data, head   (and main's data, head = ...)
Return ==
  /\ rof_pc = "return"
  /\ result' = <<data, head>>
  /\ rof_pc' = "returned"
  /\ main_pc' = "output"
  /\ UNCHANGED <<envVars, exc, stdout, idx, fileVars, pos, rofLocals>>

\* ------------------------------------------------------------ main, output
\* for idx, line in enumerate(data): print(CSV_SEPARATOR.join(...))
CanPrint == main_pc = "output" /\ idx < result[1].shape[1]

PrintRow ==
  /\ CanPrint
  /\ stdout' = Append(stdout, Join(result[1].a[idx + 1]))
  /\ idx' = idx + 1
  /\ UNCHANGED <<envVars, main_pc, rof_pc, exc, result, fileVars, pos, rofLocals>>

\* the loop is exhausted: main returns
MainReturn ==
  /\ main_pc = "output"
  /\ idx >= result[1].shape[1]
  /\ main_pc' = "done"
  /\ UNCHANGED <<envVars, rof_pc, exc, stdout, idx, result, fileVars, pos, rofLocals>>

Next ==
  \/ AssertPath
  \/ AssertCount
  \/ PrintUsage
  \/ CallReadRof
  \/ ReadFiletype
  \/ SkipFiletypeByte
  \/ ReadModel
  \/ SkipModelByte
  \/ ReadDataInfoLen
  \/ ReadDataLen
  \/ ReadHeadCrc
  \/ ReadDataCrc
  \/ ReadPeriod
  \/ ReadPoints
  \/ ReadOldestDataSubscript
  \/ ReadRawData
  \/ MakeArray
  \/ ConvertToFloat
  \/ ConvertToVolts
  \/ GetTimeColumn
  \/ AddTimeColumn
  \/ Return
  \/ PrintRow
  \/ MainReturn

Spec == Init /\ [][Next]_vars

\* ----------------------------------------------------------------- claims
\* positions of read_rof inside the header (lines 64-75)
HeaderPcs ==
  {"filetype", "skip_filetype", "model", "skip_model", "data_info_len", "data_len",
   "head_crc", "data_crc", "period", "points", "oldest_data_subscript"}

\* positions between the end of the header and the check of the sample block
SamplePcs == {"raw_data", "ndarray"}

\* number of bytes of the file that lie after the header
Following == IF Len(fid) > HeaderLen THEN Len(fid) - HeaderLen ELSE 0

\* C1 as stated: with a known model and every header field present, read_rof
\* has consumed exactly 24 bytes when it turns to the sample block.
C1_HeaderConsumes24 ==
  (rof_pc = "raw_data" /\ Len(fid) >= HeaderLen) => pos = 24

\* C1 amended: with a known model and every header field present, the header
\* statements of read_rof advance the cursor by exactly 28 bytes, whatever the
\* field values, and the sample block is read from offset 28 on.
C1_HeaderConsumes28 ==
  /\ (rof_pc = "raw_data" /\ Len(fid) >= 28) => pos = 28
  /\ (rof_pc = "ndarray" /\ Len(fid) >= 28) =>
       \A i \in 1..Len(raw_data) : raw_data[i] = fid[28 + i]

C1_Witness ==
  /\ rof_pc = "ndarray"
  /\ head["points"] = 1
  /\ pos = 28 + 16
  /\ Len(raw_data) = 16

\* C2: for a point count P >= 0 and the C channels of the model, if fewer than
\* P * 2C * 4 bytes follow the header (one byte fewer included) read_rof ends
\* with the TypeError of the array constructor, before any table is built;
\* so it succeeds only with at least that many bytes.
C2_ShortBlockFails ==
  ( /\ "points" \in DOMAIN head
    /\ head["points"] >= 0
    /\ Following < head["points"] * (2 * ch_num[head["model"]]) * 4
    /\ rof_pc \notin {"oldest_data_subscript"} \cup SamplePcs )
  => /\ rof_pc = "raised"
     /\ exc = "TypeError"
     /\ data = EmptyList
     /\ result = <<>>

C2_Witness ==
  /\ "points" \in DOMAIN head
  /\ head["points"] = 2
  /\ Following = head["points"] * (2 * ch_num[head["model"]]) * 4 - 1
  /\ exc = "TypeError"
  /\ data = EmptyList

\* C3: if the file ends before the header is complete, read_rof ends with an
\* exception and returns neither a header nor a table.
C3_TruncatedHeaderFails ==
  (Len(fid) < HeaderLen /\ rof_pc \in {"raised", "returned"})
  => /\ rof_pc = "raised"
     /\ exc # "none"
     /\ result = <<>>

\* C4: the model read from offset 4 is a non-empty label with at least one
\* channel, and only for code 10; any other byte there ends read_rof with
\* KeyError at that statement (cursor at 5, nothing but the file type stored,
\* no table, nothing returned).
C4_ModelLookup ==
  /\ "model" \in DOMAIN head =>
       /\ Len(fid) >= 5
       /\ fid[5] = 10
       /\ head["model"] = "DP821A"
       /\ head["model"] # ""
       /\ ch_num[head["model"]] >= 1
  /\ (Len(fid) >= 5 /\ fid[5] # 10 /\ rof_pc \notin {"filetype", "skip_filetype", "model"}) =>
       /\ rof_pc = "raised"
       /\ exc = "KeyError"
       /\ pos = 5
       /\ DOMAIN head = {"filetype"}
       /\ raw_data = <<>>
       /\ data = EmptyList
       /\ result = <<>>

C4_Witness ==
  /\ Len(fid) > HeaderLen
  /\ fid[5] = 11
  /\ exc = "KeyError"
  /\ pos = 5

\* C5: a returned table has exactly P rows and 1 + 2C columns (P the point
\* count of the header, C the channels of its model); a file with a whole
\* header of a known model and P = 0 is decoded without error into zero rows.
C5_TableShape ==
  /\ rof_pc = "returned" =>
       LET t == result[1]
           P == head["points"]
           cols == 1 + 2 * ch_num[head["model"]]
       IN  /\ t.shape = <<P, cols>>
           /\ Len(t.a) = P
           /\ \A r \in 1..P : Len(t.a[r]) = cols
  /\ ( /\ written.points = 0
       /\ written.model = 10
       /\ written.len >= HeaderLen
       /\ rof_pc \in {"raised", "returned"} )
     => /\ rof_pc = "returned"
        /\ exc = "none"
        /\ result[1].shape = <<0, 5>>
        /\ result[1].a = <<>>

C5_Witness ==
  /\ main_pc = "done"
  /\ rof_pc = "returned"
  /\ head["points"] = 0
  /\ result[1].shape = <<0, 5>>
  /\ stdout = <<>>

\* C6 as stated: in a returned table the leftmost cell of row i is i * period.
C6_TimeColumnExact ==
  rof_pc = "returned" =>
    \A i \in 0..(head["points"] - 1) :
      result[1].a[i + 1][1] = [n |-> i * head["period"], d |-> 1]

\* C6 amended: in a returned table the leftmost cell of row i is i * period
\* rounded to the nearest float32: it is a multiple of the float32 spacing at
\* i * period, at most half a spacing away from it, and i * period itself
\* whenever |i * period| <= 2^24.  It depends on P and period only.
C6_TimeColumnFloat32 ==
  rof_pc = "returned" =>
    \A i \in 0..(head["points"] - 1) :
      LET v == i * head["period"]
          cell == result[1].a[i + 1][1]
          gap == UlpOf(Abs(v), 1)
      IN  /\ cell.d = 1
          /\ cell.n % gap = 0
          /\ 2 * Abs(cell.n - v) <= gap
          /\ Abs(v) <= 2 ^ 24 => cell.n = v

C6_Witness ==
  /\ rof_pc = "returned"
  /\ head["points"] = 3
  /\ head["period"] = 5
  /\ [i \in 1..3 |-> result[1].a[i][1].n] = <<0, 5, 10>>

\* C7 as stated: in a returned table the cell at row r, column 1 + c is
\* raw * 0.0001, raw being the sample written at index r * 2C + c.
C7_CellsExact ==
  rof_pc = "returned" =>
    LET cols == 2 * ch_num[head["model"]]
    IN  \A r \in 0..(head["points"] - 1) : \A c \in 0..(cols - 1) :
          result[1].a[r + 1][c + 2]
            = [n |-> SampleOf(written.rec, r * cols + c), d |-> VOLTS_AMPERES_COEFF]

\* C7 amended: in a returned table the cell at row r, column 1 + c is
\* float32(raw) * 0.0001, raw being the sample written at index r * 2C + c
\* (row-major, file order) and float32(raw) its nearest float32: a multiple of
\* the float32 spacing at raw, at most half a spacing away, and raw itself
\* whenever |raw| <= 2^24.
C7_CellsFloat32 ==
  rof_pc = "returned" =>
    LET cols == 2 * ch_num[head["model"]]
    IN  \A r \in 0..(head["points"] - 1) : \A c \in 0..(cols - 1) :
          LET raw == SampleOf(written.rec, r * cols + c)
              cell == result[1].a[r + 1][c + 2]
              gap == UlpOf(Abs(raw), 1)
          IN  /\ cell.d = 10000
              /\ cell.n % gap = 0
              /\ 2 * Abs(cell.n - raw) <= gap
              /\ Abs(raw) <= 2 ^ 24 => cell.n = raw

C7_Witness ==
  /\ rof_pc = "returned"
  /\ head["points"] = 2
  /\ written.rec = "spec"
  /\ [c \in 1..5 |-> result[1].a[2][c].n] = <<5, 50000, 60000, 70000, 80000>>

\* C8: once an exception is raised the run has ended: read_rof has returned
\* nothing, no table was built, main has printed nothing; a table row is
\* printed only after read_rof returned without exception.
C8_FailureAborts ==
  /\ exc # "none" =>
       /\ main_pc = "raised"
       /\ rof_pc \in {"idle", "raised"}
       /\ result = <<>>
       /\ data = EmptyList
       /\ stdout = <<>>
       /\ idx = 0
  /\ idx > 0 => (rof_pc = "returned" /\ exc = "none" /\ result # <<>>)

C8_Witness ==
  /\ exc = "TypeError"
  /\ pos > HeaderLen
  /\ raw_data # <<>>
  /\ result = <<>>
  /\ stdout = <<>>

\* C9: read_rof is entered only with exactly one argument that is not a help
\* flag; no argument or too many end main with AssertionError before the call,
\* and a help flag prints the usage text and returns without the call.
C9_CallOnlyWithOnePath ==
  /\ rof_pc # "idle" => (Len(argv) = 2 /\ argv[2] \notin {"-h", "--help"})
  /\ (Len(argv) # 2 /\ main_pc \notin {"assert_path", "assert_count"}) =>
       (main_pc = "raised" /\ exc = "AssertionError" /\ stdout = <<>>)
  /\ (Len(argv) = 2 /\ argv[2] \in {"-h", "--help"} /\ main_pc \notin {"assert_path", "assert_count", "help"}) =>
       (main_pc = "done" /\ exc = "none" /\ Len(stdout) = 1 /\ Len(stdout[1]) = 1)

C9_Witness ==
  /\ rof_pc = "returned"
  /\ Len(argv) = 2
  /\ argv[2] = "in.rof"

====
